---- MODULE Spec2Model ----
(***************************************************************************)
(* Model of the pharmaceutical model-training tooling:                     *)
(*   - ModelTrainingOrchestrator and main  (training/train_all_models.py)  *)
(*   - PharmaceuticalDatasetPreparer.split_dataset                         *)
(*                                  (training/utils/dataset_preparation.py)*)
(*   - AuthenticityVerifierTrainer.create_siamese_pairs                    *)
(*                        (training/scripts/train_authenticity_verifier.py)*)
(***************************************************************************)
EXTENDS Integers, Sequences, FiniteSets, TLC

(***************************************************************************)
(* Bounds of the model.                                                    *)
(***************************************************************************)
\* total number of job names a caller requests over one orchestrator's life
MaxReq == 3
\* length of the --models list given to main
MaxArgs == 2
\* number of prerequisite paths missing from the filesystem
MaxMissing == 2
\* size of a category handed to the slicing of split_dataset
MaxN == 10
\* up to this size every outcome of the shuffle is considered
MaxShuffle == 3
\* how far (in 1/Den) a ratio may lie below 0 or above 1
RatioSlack == 4
\* how far (in 1/Den) the sum of the ratios may be off 1
MaxOff == 1
\* number of images in the source tree
MaxItems == 3
\* number of split_dataset calls
MaxSplitCalls == 2
\* size of an image pool of create_siamese_pairs
MaxPool == 2
\* largest num_pairs
MaxPairs == 6
\* number of images in a category handed to validate_dataset_structure
MaxImages == 10
\* number of validate_dataset_structure calls
MaxValCalls == 2
\* number of lines one training subprocess prints
MaxLines == 2
\* seconds that pass while reports are generated
MaxClock == 3
\* number of generate_training_report calls of a caller
MaxReports == 4

(***************************************************************************)
(* Values.                                                                 *)
(***************************************************************************)
None == "None"

\* datetime.now(): an opaque time stamp
Now == "t"

Known == {"drug_classifier", "authenticity_verifier", "pill_detector"}

Unknown == {"unknown_model"}

Names == Known \cup Unknown

DefaultModels == <<"drug_classifier", "authenticity_verifier", "pill_detector">>

ExitCodes == {0, 1, 2}

\* the stripped lines a training script prints
Lines == {"Epoch 1/10"}

\* str(e) of the exceptions mkdir, Popen, open and the streaming loop raise
ExcTexts == {"[Errno 13] Permission denied"}

\* sequences over S of length lo..hi
SeqsOf(S, lo, hi) == UNION {[1..n -> S] : n \in lo..hi}

Range(s) == {s[i] : i \in 1..Len(s)}

(***************************************************************************)
(* The filesystem paths check_prerequisites and install_requirements look  *)
(* at.                                                                     *)
(***************************************************************************)
RequiredDirs == {"scripts_dir", "configs_dir", "data_dir"}

RequiredScripts == {"train_drug_classifier.py", "train_authenticity_verifier.py",
                    "train_pill_detector.py"}

RequiredConfigs == {"drug_classifier_config.json", "authenticity_config.json",
                    "pill_detection_config.json"}

DataDirs == {"pharmaceutical_images/authentic", "pharmaceutical_images/counterfeit"}

RequirementsTxt == "requirements.txt"

Paths == RequiredDirs \cup RequiredScripts \cup RequiredConfigs \cup DataDirs
           \cup {RequirementsTxt}

VARIABLES
    \* ---- orchestrator and main ----
    pc,                 \* position of the orchestrating control flow
    in_main,            \* TRUE when main drives the orchestrator
    missing,            \* the paths that do not exist
    training_status,    \* self.training_status
    models_to_train,    \* argument of the running/last train_all_models call
    idx,                \* position of the for loop in models_to_train
    model_name,         \* argument of the running train_model call
    direct,             \* TRUE when train_model was called by the caller itself
    successful_models,  \* local/returned list of train_all_models
    failed_models,      \* local/returned list of train_all_models
    success,            \* return value of the last train_model call
    process,            \* the Popen object of the running train_model call
    orphans,            \* subprocesses still alive whose Popen object was dropped
    outcomes,           \* what each request of the running/last call ran into
    used,               \* job names requested so far
    report,             \* the report generate_training_report wrote
    exit_status,        \* exit status of main
    prereq,             \* what the last check_prerequisites call returned and logged
    clock,              \* the wall clock, in whole seconds
    report_files,       \* the training_report_<timestamp>.json files, by path
    report_log,         \* the paths generate_training_report wrote to, in call order
    log_files,          \* <job>_training.log of each job
    received,           \* the lines the running/last train_model call read
    \* ---- the slicing of one category in split_dataset ----
    slice_pc,           \* "call", "done" or "error"
    image_files,        \* the category's files after random.shuffle
    ratios,             \* train_ratio, val_ratio, test_ratio in 1/Den
    train_files,
    val_files,
    test_files,
    \* ---- split_dataset on a filesystem ----
    images,             \* the files under data/pharmaceutical_images
    processed,          \* the files under data/processed/<split>
    split_dirs,         \* the directories data/processed/<split>/<class>
    split_summary,      \* data/processed/dataset_splits.json
    split_files,        \* train_files, val_files, test_files of each class
    split_args,         \* the ratios of the last split_dataset call
    split_error,        \* the exception the last split_dataset call raised
    split_calls,        \* number of split_dataset calls so far
    \* ---- create_siamese_pairs ----
    pair_pc,            \* the loop create_siamese_pairs is in
    pair_i,             \* the loop variable i
    authentic_images,
    counterfeit_images,
    num_pairs,
    pairs,
    labels,
    \* ---- validate_dataset_structure ----
    dirs,               \* the directories under data/pharmaceutical_images
    validation,         \* the stats the last call returned
    validation_report,  \* data/validation_report.json
    val_calls,          \* number of validate_dataset_structure calls so far
    \* ---- the script train_authenticity_verifier.py ----
    script_pc,          \* position of the script run as a subprocess
    trained             \* TRUE once model.fit has run

orchVars == <<pc, in_main, missing, training_status, models_to_train, idx, model_name,
              direct, successful_models, failed_models, success, process, orphans,
              outcomes, used, report, exit_status>>

sliceVars == <<slice_pc, image_files, ratios, train_files, val_files, test_files>>

splitVars == <<images, processed, split_dirs, split_summary, split_files, split_args,
               split_error, split_calls>>

pairVars == <<pair_pc, pair_i, authentic_images, counterfeit_images, num_pairs, pairs,
              labels>>

reportVars == <<clock, report_files, report_log>>

logVars == <<log_files, received>>

\* the diagnostics, report files and job logs of the orchestrator
auxVars == <<prereq, reportVars, logVars>>

valVars == <<dirs, validation, validation_report, val_calls>>

scriptVars == <<script_pc, trained>>

\* the state of the dataset tools and training scripts, which the
\* orchestrator never touches
dataVars == <<sliceVars, splitVars, pairVars, valVars, scriptVars>>

vars == <<orchVars, auxVars, dataVars>>

(***************************************************************************)
(* PharmaceuticalDatasetPreparer.split_dataset: ratios and slices          *)
(***************************************************************************)
\* a ratio r is held as the integer r * Den; 1.0 is Den
Den == 20

Abs(x) == IF x < 0 THEN 0 - x ELSE x

Min(a, b) == IF a < b THEN a ELSE b

Max(a, b) == IF a < b THEN b ELSE a

Ratios(a, b, c) == [train |-> a, val |-> b, test |-> c]

\* line 237: abs(train_ratio + val_ratio + test_ratio - 1.0) > 1e-6 raises
RatiosValid(r) == ~(Abs(r.train + r.val + r.test - Den) * 1000000 > Den)

\* int(n_total * ratio) with a bound that rounds to the next integer
IntRoundedUp(n, k) == (n * k + Den - 1) \div Den

\* lines 275-276: int(n_total * ratio); int truncates toward zero
IntOf(n, k) ==
    IF n * k >= 0 THEN (n * k) \div Den ELSE 0 - ((0 - n * k) \div Den)

\* a slice index of Python: a negative index counts from the end, and an
\* index outside the list is clipped to it
SliceIndex(i, n) == IF i < 0 THEN Max(i + n, 0) ELSE Min(i, n)

\* s[start:stop] of Python (0-based, stop excluded)
PySlice(s, start, stop) ==
    LET a == SliceIndex(start, Len(s))
        b == SliceIndex(stop, Len(s))
    IN  IF a >= b THEN <<>> ELSE SubSeq(s, a + 1, b)

\* lines 274-280, applied to the shuffled list
SplitFiles(files, r) ==
    LET n_total == Len(files)
        n_train == IntOf(n_total, r.train)
        n_val == IntOf(n_total, r.val)
    IN  [train |-> PySlice(files, 0, n_train),
         val |-> PySlice(files, n_train, n_train + n_val),
         test |-> PySlice(files, n_train + n_val, n_total)]

\* the lists random.shuffle can leave of the set S
Perms(S) ==
    {f \in [1..Cardinality(S) -> S] : \A i, j \in DOMAIN f : i # j => f[i] # f[j]}

SliceIdle ==
    /\ slice_pc = "idle"
    /\ image_files = <<>>
    /\ ratios = Ratios(0, 0, 0)
    /\ train_files = <<>>
    /\ val_files = <<>>
    /\ test_files = <<>>

\* lines 270-280 for one category: the slices of the shuffled list
SliceCategory ==
    /\ slice_pc = "call"
    /\ RatiosValid(ratios)
    /\ train_files' = SplitFiles(image_files, ratios).train
    /\ val_files' = SplitFiles(image_files, ratios).val
    /\ test_files' = SplitFiles(image_files, ratios).test
    /\ slice_pc' = "done"
    /\ UNCHANGED <<image_files, ratios>>
    /\ UNCHANGED <<orchVars, auxVars, valVars, scriptVars, splitVars, pairVars>>

\* lines 237-238: ValueError("Ratios must sum to 1.0")
SliceRejected ==
    /\ slice_pc = "call"
    /\ ~RatiosValid(ratios)
    /\ slice_pc' = "error"
    /\ UNCHANGED <<image_files, ratios, train_files, val_files, test_files>>
    /\ UNCHANGED <<orchVars, auxVars, valVars, scriptVars, splitVars, pairVars>>

(***************************************************************************)
(* PharmaceuticalDatasetPreparer.split_dataset on the filesystem           *)
(***************************************************************************)
Classes == {"authentic", "counterfeit"}

Splits == {"train", "val", "test"}

\* the one category directory of each class
Category == "aspirin"

Exts == <<"jpg", "png", "jpeg", "bmp">>

\* the i-th image of a class: img<i>.<ext>
Image(t, i) ==
    [type |-> t, category |-> Category, name |-> i,
     ext |-> Exts[((i - 1) % Len(Exts)) + 1]]

\* lines 262-265: the images of a category with one of the four extensions
ImageFiles(tree, t) == {f \in tree : f.type = t /\ f.category = Category}

\* lines 284-289: the copy of f under processed/<split>/<class>/<category>/
Copy(split, f) ==
    [split |-> split, type |-> f.type, category |-> f.category, name |-> f.name,
     ext |-> f.ext]

\* a copy loop that leaves the test files out
CopiesWithoutTest(lists) ==
    UNION {{Copy(sp, f) : f \in Range(lists[sp])} : sp \in Splits \ {"test"}}

\* lines 282-289: the copies of the three lists of one class
Copies(lists) == UNION {{Copy(sp, f) : f \in Range(lists[sp])} : sp \in Splits}

NoFiles == [train |-> <<>>, val |-> <<>>, test |-> <<>>]

NoSummary == [written |-> FALSE]

ValueError == "Ratios must sum to 1.0"

\* lines 303-309: glob("**/*.jpg") plus glob("**/*.png") under the split
\* directory of the class
ImageCount(files, split, t) ==
    Cardinality({f \in files : f.split = split /\ f.type = t /\ f.ext \in {"jpg", "png"}})

\* lines 294-309
SplitSummary(files, r) ==
    [written |-> TRUE,
     split_ratios |-> r,
     splits |-> [sp \in Splits |-> [t \in Classes |-> ImageCount(files, sp, t)]]]

SplitIdle ==
    /\ images = {}
    /\ processed = {}
    /\ split_dirs = {}
    /\ split_summary = NoSummary
    /\ split_files = [t \in Classes |-> NoFiles]
    /\ split_args = Ratios(0, 0, 0)
    /\ split_error = None
    /\ split_calls = 0

\* the ratio triples split_dataset is called with: the default, the one of
\* the spec's failing example (0.7, 0.2, 0.05), halves, and a negative ratio
SplitRatios ==
    {Ratios(14, 4, 2), Ratios(14, 4, 1), Ratios(10, 10, 0), Ratios(0 - 10, 10, 20)}

\* a split_dataset that creates the split directories before it validates
SplitDatasetRaisesLate ==
    /\ split_calls < MaxSplitCalls
    /\ \E r \in SplitRatios :
          /\ ~RatiosValid(r)
          /\ split_args' = r
    /\ split_dirs' = split_dirs \cup (Splits \X Classes)
    /\ split_error' = ValueError
    /\ split_calls' = split_calls + 1
    /\ UNCHANGED <<images, processed, split_summary, split_files>>
    /\ UNCHANGED <<orchVars, auxVars, valVars, scriptVars, sliceVars, pairVars>>

\* lines 237-238: the ratios do not sum to 1.0, ValueError is raised
SplitDatasetRaises ==
    /\ split_calls < MaxSplitCalls
    /\ \E r \in SplitRatios :
          /\ ~RatiosValid(r)
          /\ split_args' = r
    /\ split_error' = ValueError
    /\ split_calls' = split_calls + 1
    /\ UNCHANGED <<images, processed, split_dirs, split_summary, split_files>>
    /\ UNCHANGED <<orchVars, auxVars, valVars, scriptVars, sliceVars, pairVars>>

\* lines 240-316: the split directories are made, every non-empty category
\* is shuffled, sliced and copied, and the summary is written
SplitDataset ==
    /\ split_calls < MaxSplitCalls
    /\ \E r \in SplitRatios :
          /\ RatiosValid(r)
          /\ split_args' = r
          /\ \E shuffled \in [Classes -> UNION {Perms(ImageFiles(images, t)) : t \in Classes}] :
                /\ \A t \in Classes : shuffled[t] \in Perms(ImageFiles(images, t))
                /\ split_files' = [t \in Classes |-> SplitFiles(shuffled[t], r)]
          /\ processed' = processed \cup UNION {Copies(split_files'[t]) : t \in Classes}
          /\ split_summary' = SplitSummary(processed', r)
    /\ split_dirs' = split_dirs \cup (Splits \X Classes)
    /\ split_error' = None
    /\ split_calls' = split_calls + 1
    /\ UNCHANGED images
    /\ UNCHANGED <<orchVars, auxVars, valVars, scriptVars, sliceVars, pairVars>>

(***************************************************************************)
(* AuthenticityVerifierTrainer.create_siamese_pairs                        *)
(***************************************************************************)
\* str(img): the path of an image
PathStr(f) ==
    f.type \o "/" \o f.category \o "/img" \o ToString(f.name) \o "." \o f.ext

\* a pool of k images of one class, as load_dataset lists them
Pool(t, k) == [i \in 1..k |-> Image(t, i)]

\* line 66: range(num_pairs // 4)
PositiveCount(n) == n \div 4

\* a cross-class loop that runs as often as the same-class loops
CrossCountQuarter(n) == n \div 4

\* line 73: range(num_pairs // 2)
CrossCount(n) == n \div 2

\* a counterfeit-counterfeit loop that runs as often as the cross-class loop
NegativeCountHalf(n) == n \div 2

\* line 81: range(num_pairs // 4)
NegativeCount(n) == n \div 4

PairIdle ==
    /\ pair_pc = "idle"
    /\ pair_i = 0
    /\ authentic_images = <<>>
    /\ counterfeit_images = <<>>
    /\ num_pairs = 0
    /\ pairs = <<>>
    /\ labels = <<>>

PairFrame ==
    /\ UNCHANGED <<authentic_images, counterfeit_images, num_pairs>>
    /\ UNCHANGED <<orchVars, auxVars, valVars, scriptVars, sliceVars, splitVars>>

\* two draws with replacement: the same element may come twice
Sample2WithReplacement(pool) == {<<pool[i], pool[j]>> : i, j \in DOMAIN pool}

\* random.sample(pool, 2): two different elements of the pool, in some order
Sample2(pool) ==
    {<<pool[i], pool[j]>> : i, j \in DOMAIN pool} \ {<<pool[i], pool[i]>> : i \in DOMAIN pool}

AddPair(img1, img2, label) ==
    /\ pairs' = Append(pairs, <<PathStr(img1), PathStr(img2)>>)
    /\ labels' = Append(labels, label)

\* lines 66-70: one iteration of the authentic-authentic loop
PositivePair ==
    /\ pair_pc = "positive"
    /\ pair_i < PositiveCount(num_pairs)
    /\ IF Len(authentic_images) >= 2
         THEN \E s \in Sample2(authentic_images) : AddPair(s[1], s[2], 1)
         ELSE UNCHANGED <<pairs, labels>>
    /\ pair_i' = pair_i + 1
    /\ UNCHANGED pair_pc
    /\ PairFrame

\* line 66: the range is exhausted
PositiveDone ==
    /\ pair_pc = "positive"
    /\ pair_i >= PositiveCount(num_pairs)
    /\ pair_pc' = "cross"
    /\ pair_i' = 0
    /\ UNCHANGED <<pairs, labels>>
    /\ PairFrame

\* lines 73-78: one iteration of the authentic-counterfeit loop
CrossPair ==
    /\ pair_pc = "cross"
    /\ pair_i < CrossCount(num_pairs)
    /\ IF Len(authentic_images) > 0 /\ Len(counterfeit_images) > 0
         THEN \E img1 \in Range(authentic_images), img2 \in Range(counterfeit_images) :
                 AddPair(img1, img2, 0)
         ELSE UNCHANGED <<pairs, labels>>
    /\ pair_i' = pair_i + 1
    /\ UNCHANGED pair_pc
    /\ PairFrame

\* line 73: the range is exhausted
CrossDone ==
    /\ pair_pc = "cross"
    /\ pair_i >= CrossCount(num_pairs)
    /\ pair_pc' = "negative"
    /\ pair_i' = 0
    /\ UNCHANGED <<pairs, labels>>
    /\ PairFrame

\* lines 81-85: one iteration of the counterfeit-counterfeit loop
NegativePair ==
    /\ pair_pc = "negative"
    /\ pair_i < NegativeCount(num_pairs)
    /\ IF Len(counterfeit_images) >= 2
         THEN \E s \in Sample2(counterfeit_images) : AddPair(s[1], s[2], 0)
         ELSE UNCHANGED <<pairs, labels>>
    /\ pair_i' = pair_i + 1
    /\ UNCHANGED pair_pc
    /\ PairFrame

\* lines 87-88: return pairs, labels
PairsReturn ==
    /\ pair_pc = "negative"
    /\ pair_i >= NegativeCount(num_pairs)
    /\ pair_pc' = "done"
    /\ UNCHANGED <<pair_i, pairs, labels>>
    /\ PairFrame

(***************************************************************************)
(* ModelTrainingOrchestrator.__init__                                      *)
(***************************************************************************)
PendingEntry == [status |-> "pending", start_time |-> None, end_time |-> None,
                 error |-> None]

\* "no exit status yet": a process that has not exited, a main still running
NoExit == 0 - 1

NoProcess == [state |-> "none", returncode |-> NoExit]

NoReport == [written |-> FALSE]

\* no training_report_*.json file yet
NoReportFiles == [p \in {} |-> NoReport]

\* check_prerequisites has not been called
NoCheck == [ok |-> FALSE, errors |-> <<>>, warnings |-> <<>>]

\* no <job>_training.log
NoLog == [exists |-> FALSE, entries |-> <<>>]

OrchInit ==
    /\ training_status = [m \in Known |-> PendingEntry]
    /\ models_to_train = <<>>
    /\ idx = 0
    /\ model_name = None
    /\ direct = FALSE
    /\ successful_models = <<>>
    /\ failed_models = <<>>
    /\ success = FALSE
    /\ process = NoProcess
    /\ orphans = 0
    /\ outcomes = <<>>
    /\ used = 0
    /\ report = NoReport
    /\ exit_status = NoExit
    /\ prereq = NoCheck
    /\ clock = 0
    /\ report_files = NoReportFiles
    /\ report_log = <<>>
    /\ log_files = [m \in Known |-> NoLog]
    /\ received = <<>>


(***************************************************************************)
(* ModelTrainingOrchestrator.train_model                                   *)
(***************************************************************************)
\* f"Process exited with code {process.returncode}"
ExitError(code) == "Process exited with code " \o ToString(code)

\* a start that stamps the start time of every job
MarkRunningStampingAll(st, m) ==
    [x \in DOMAIN st |->
        IF x = m THEN [st[x] EXCEPT !.status = "running", !.start_time = Now]
        ELSE [st[x] EXCEPT !.start_time = Now]]

\* lines 118-119: the job is marked running and its start time is taken
MarkRunning(st, m) ==
    [st EXCEPT ![m].status = "running", ![m].start_time = Now]

\* lines 160-161 and the finally clause: exit code 0
MarkCompleted(st, m) ==
    [st EXCEPT ![m].status = "completed", ![m].end_time = Now]

\* a failure that records no end time
MarkFailedNoEndTime(st, m, e) ==
    [st EXCEPT ![m].status = "failed", ![m].error = e]

\* lines 164-165, 170-171 and the finally clause: the job failed with detail e
MarkFailed(st, m, e) ==
    [st EXCEPT ![m].status = "failed", ![m].error = e, ![m].end_time = Now]

\* what the run of one request ran into (history of the call)
Outcome(m, how, detail) == [name |-> m, how |-> how, detail |-> detail]

\* the subprocess of a dropped Popen object keeps running until it exits
Dropped(p) == IF p.state \in {"running", "closed"} THEN 1 ELSE 0

\* the except and finally clauses, lines 169-175: any exception raised inside
\* the try block fails the job with str(e) and returns False; the subprocess,
\* if one was spawned, is neither waited for nor killed
TMRaise(e) ==
    /\ training_status' = MarkFailed(training_status, model_name, e)
    /\ success' = FALSE
    /\ orphans' = orphans + Dropped(process)
    /\ process' = NoProcess
    /\ outcomes' = Append(outcomes, Outcome(model_name, "raised", e))
    /\ pc' = "tm_return"
    /\ UNCHANGED <<in_main, missing, models_to_train, idx, model_name, direct,
                   successful_models, failed_models, used, report, exit_status>>
    /\ UNCHANGED <<auxVars, dataVars>>

TMStep(to) ==
    /\ pc' = to
    /\ UNCHANGED <<in_main, missing, training_status, models_to_train, idx, model_name,
                   direct, successful_models, failed_models, success, process, orphans,
                   outcomes, used, report, exit_status>>
    /\ UNCHANGED <<prereq, reportVars, received, dataVars>>

\* line 127: output_dir.mkdir(parents=True, exist_ok=True)
TMMkdir ==
    /\ pc = "tm_mkdir"
    /\ TMStep("tm_popen")
    /\ UNCHANGED log_files

TMMkdirRaises ==
    /\ pc = "tm_mkdir"
    /\ \E e \in ExcTexts : TMRaise(e)

\* lines 139-146: subprocess.Popen(cmd, stdout=PIPE, stderr=STDOUT, ...)
TMPopen ==
    /\ pc = "tm_popen"
    /\ process' = [state |-> "running", returncode |-> NoExit]
    /\ pc' = "tm_open"
    /\ UNCHANGED <<in_main, missing, training_status, models_to_train, idx, model_name,
                   direct, successful_models, failed_models, success, orphans,
                   outcomes, used, report, exit_status>>
    /\ UNCHANGED <<auxVars, dataVars>>

TMPopenRaises ==
    /\ pc = "tm_popen"
    /\ \E e \in ExcTexts : TMRaise(e)

\* line 150: open(log_file_path, 'w') creates the log or empties it
TMOpenLog ==
    /\ pc = "tm_open"
    /\ log_files' = [log_files EXCEPT ![model_name] = [exists |-> TRUE, entries |-> <<>>]]
    /\ TMStep("tm_stream")

TMOpenLogRaises ==
    /\ pc = "tm_open"
    /\ \E e \in ExcTexts : TMRaise(e)

\* lines 151-156: readline, log_file.write or flush raises
TMStreamRaises ==
    /\ pc = "tm_stream"
    /\ \E e \in ExcTexts : TMRaise(e)

\* line 155: f"{datetime.now().isoformat()} - {line}"
LogEntry(line) == Now \o " - " \o line

\* lines 151-156: readline returns a line of the subprocess, which is logged,
\* written to the log file and flushed
TMReadLine ==
    /\ pc = "tm_stream"
    /\ process.state = "running"
    /\ Len(received) < MaxLines
    /\ \E line \in Lines :
          /\ received' = Append(received, line)
          /\ log_files' = [log_files EXCEPT
                              ![model_name].entries = Append(@, LogEntry(line))]
    /\ UNCHANGED <<orchVars, prereq, reportVars, dataVars>>

\* line 151: readline returns '' once the subprocess has closed its output
TMEndOfStream ==
    /\ pc = "tm_stream"
    /\ process.state \in {"closed", "exited"}
    /\ TMStep("tm_wait")
    /\ UNCHANGED log_files

\* a classification that takes only exit code 1 for a failure
ClassifyOnlyOne(st, m, code) ==
    IF code # 1 THEN MarkCompleted(st, m) ELSE MarkFailed(st, m, ExitError(code))

\* lines 160-167 and 175: classification by exit code
Classify(st, m, code) ==
    IF code = 0 THEN MarkCompleted(st, m) ELSE MarkFailed(st, m, ExitError(code))

\* lines 158-177: process.wait() returns once the subprocess has exited
TMWait ==
    /\ pc = "tm_wait"
    /\ process.state = "exited"
    /\ training_status' = Classify(training_status, model_name, process.returncode)
    /\ success' = (process.returncode = 0)
    /\ outcomes' = Append(outcomes, Outcome(model_name, "exit", ToString(process.returncode)))
    /\ process' = NoProcess
    /\ pc' = "tm_return"
    /\ UNCHANGED <<in_main, missing, models_to_train, idx, model_name, direct,
                   successful_models, failed_models, orphans, used, report, exit_status>>
    /\ UNCHANGED <<auxVars, dataVars>>

(***************************************************************************)
(* The training subprocesses (the environment of train_model).             *)
(***************************************************************************)
ProcUnchanged ==
    UNCHANGED <<pc, in_main, missing, training_status, models_to_train, idx, model_name,
                direct, successful_models, failed_models, success, outcomes, used,
                report, exit_status>>

\* the subprocess closes its output
ProcClose ==
    /\ process.state = "running"
    /\ process' = [process EXCEPT !.state = "closed"]
    /\ UNCHANGED orphans
    /\ ProcUnchanged
    /\ UNCHANGED <<auxVars, dataVars>>

\* the subprocess exits with some code
ProcExit ==
    /\ process.state = "closed"
    /\ \E code \in ExitCodes :
          process' = [state |-> "exited", returncode |-> code]
    /\ UNCHANGED orphans
    /\ ProcUnchanged
    /\ UNCHANGED <<auxVars, dataVars>>

\* a subprocess nobody waits for exits
OrphanExit ==
    /\ orphans > 0
    /\ orphans' = orphans - 1
    /\ UNCHANGED process
    /\ ProcUnchanged
    /\ UNCHANGED <<auxVars, dataVars>>

\* subprocesses that have been spawned and have not exited
Alive == orphans + Dropped(process)

(***************************************************************************)
(* ModelTrainingOrchestrator.train_all_models                              *)
(***************************************************************************)
\* lines 179-191: entry of train_all_models
EnterTrainAll(req) ==
    /\ models_to_train' = (IF req = <<None>> THEN DefaultModels ELSE req)
    /\ idx' = 1
    /\ successful_models' = <<>>
    /\ failed_models' = <<>>
    /\ outcomes' = <<>>
    /\ direct' = FALSE
    /\ pc' = "loop"

\* an unknown name that is skipped without being recorded as failed
LoopUnknownSkipped ==
    /\ pc = "loop"
    /\ idx <= Len(models_to_train)
    /\ models_to_train[idx] \notin Known
    /\ outcomes' = Append(outcomes, Outcome(models_to_train[idx], "unknown", ""))
    /\ idx' = idx + 1
    /\ UNCHANGED <<pc, in_main, missing, training_status, models_to_train, model_name,
                   direct, successful_models, failed_models, success, process, orphans,
                   used, report, exit_status>>
    /\ UNCHANGED <<auxVars, dataVars>>

\* lines 193-197: the requested name is not in model_configs
LoopUnknown ==
    /\ pc = "loop"
    /\ idx <= Len(models_to_train)
    /\ models_to_train[idx] \notin Known
    /\ failed_models' = Append(failed_models, models_to_train[idx])
    /\ outcomes' = Append(outcomes, Outcome(models_to_train[idx], "unknown", ""))
    /\ idx' = idx + 1
    /\ UNCHANGED <<pc, in_main, missing, training_status, models_to_train, model_name,
                   direct, successful_models, success, process, orphans, used, report,
                   exit_status>>
    /\ UNCHANGED <<auxVars, dataVars>>

\* lines 199-201 and 116-119: train_model is called and marks the job running
LoopTrain ==
    /\ pc = "loop"
    /\ idx <= Len(models_to_train)
    /\ models_to_train[idx] \in Known
    /\ model_name' = models_to_train[idx]
    /\ training_status' = MarkRunning(training_status, models_to_train[idx])
    /\ pc' = "tm_mkdir"
    /\ received' = <<>>
    /\ UNCHANGED <<in_main, missing, models_to_train, idx, direct, successful_models,
                   failed_models, success, process, orphans, outcomes, used, report,
                   exit_status>>
    /\ UNCHANGED <<prereq, reportVars, log_files, dataVars>>

\* a loop that stops at the first failed job
LoopAppendAborting ==
    /\ pc = "tm_return"
    /\ ~direct
    /\ IF success
         THEN /\ successful_models' = Append(successful_models, model_name)
              /\ idx' = idx + 1
              /\ UNCHANGED failed_models
         ELSE /\ failed_models' = Append(failed_models, model_name)
              /\ idx' = Len(models_to_train) + 1
              /\ UNCHANGED successful_models
    /\ pc' = "loop"
    /\ UNCHANGED <<in_main, missing, training_status, models_to_train, model_name,
                   direct, success, process, orphans, outcomes, used, report,
                   exit_status>>
    /\ UNCHANGED <<auxVars, dataVars>>

\* lines 203-207: the result of train_model is appended to one of the lists
LoopAppend ==
    /\ pc = "tm_return"
    /\ ~direct
    /\ IF success
         THEN /\ successful_models' = Append(successful_models, model_name)
              /\ UNCHANGED failed_models
         ELSE /\ failed_models' = Append(failed_models, model_name)
              /\ UNCHANGED successful_models
    /\ idx' = idx + 1
    /\ pc' = "loop"
    /\ UNCHANGED <<in_main, missing, training_status, models_to_train, model_name,
                   direct, success, process, orphans, outcomes, used, report,
                   exit_status>>
    /\ UNCHANGED <<auxVars, dataVars>>

\* line 209: return successful_models, failed_models
LoopReturn ==
    /\ pc = "loop"
    /\ idx > Len(models_to_train)
    /\ pc' = (IF in_main THEN "main_report" ELSE "returned")
    /\ UNCHANGED <<in_main, missing, training_status, models_to_train, idx, model_name,
                   direct, successful_models, failed_models, success, process, orphans,
                   outcomes, used, report, exit_status>>
    /\ UNCHANGED <<auxVars, dataVars>>

(***************************************************************************)
(* A caller that uses the orchestrator object.                             *)
(***************************************************************************)
CallerReady == pc \in {"idle", "returned"}

\* orchestrator.train_all_models(req); <<None>> stands for models_to_train=None
CallTrainAll ==
    /\ CallerReady
    /\ \E req \in SeqsOf(Names, 0, MaxReq - used) \cup {<<None>>} :
          /\ used + Len(IF req = <<None>> THEN DefaultModels ELSE req) <= MaxReq
          /\ used' = used + Len(IF req = <<None>> THEN DefaultModels ELSE req)
          /\ EnterTrainAll(req)
    /\ UNCHANGED <<in_main, missing, training_status, model_name, success, process,
                   orphans, report, exit_status>>
    /\ UNCHANGED <<auxVars, dataVars>>

\* orchestrator.train_model(m, script, config), lines 116-119
CallTrainModel ==
    /\ CallerReady
    /\ used < MaxReq
    /\ \E m \in Known :
          /\ model_name' = m
          /\ training_status' = MarkRunning(training_status, m)
    /\ direct' = TRUE
    /\ outcomes' = <<>>
    /\ used' = used + 1
    /\ pc' = "tm_mkdir"
    /\ received' = <<>>
    /\ UNCHANGED <<in_main, missing, models_to_train, idx, successful_models,
                   failed_models, success, process, orphans, report, exit_status>>
    /\ UNCHANGED <<prereq, reportVars, log_files, dataVars>>

\* train_model returns to the caller
DirectReturn ==
    /\ pc = "tm_return"
    /\ direct
    /\ pc' = "idle"
    /\ UNCHANGED <<in_main, missing, training_status, models_to_train, idx, model_name,
                   direct, successful_models, failed_models, success, process, orphans,
                   outcomes, used, report, exit_status>>
    /\ UNCHANGED <<auxVars, dataVars>>

(***************************************************************************)
(* ModelTrainingOrchestrator.check_prerequisites                           *)
(***************************************************************************)
\* a script lives in scripts_dir, a config in configs_dir, the image
\* directories in data_dir
Parent(p) ==
    IF p \in RequiredScripts THEN "scripts_dir"
    ELSE IF p \in RequiredConfigs THEN "configs_dir"
    ELSE IF p \in DataDirs THEN "data_dir"
    ELSE None

\* Path.exists()
Exists(miss, p) == p \notin miss /\ Parent(p) \notin miss

\* lines 48-79: the paths whose absence makes check_prerequisites return False
RequiredPaths == RequiredDirs \cup RequiredScripts \cup RequiredConfigs

\* lines 49, 56-60 and 69-73: the required paths in the order they are looked at
CheckOrder ==
    <<"scripts_dir", "configs_dir", "data_dir",
      "train_drug_classifier.py", "train_authenticity_verifier.py",
      "train_pill_detector.py",
      "drug_classifier_config.json", "authenticity_config.json",
      "pill_detection_config.json">>

\* lines 82-85: the image directories in the order they are looked at
DataDirOrder == <<"pharmaceutical_images/authentic", "pharmaceutical_images/counterfeit">>

\* lines 52, 65 and 78: the logger.error message for a missing required path
ErrorText(p) ==
    IF p \in RequiredDirs THEN "Required directory missing: " \o p
    ELSE IF p \in RequiredScripts THEN "Required training script missing: " \o p
    ELSE "Required config file missing: " \o p

\* lines 87-90: the two logger.warning messages for a missing image directory
WarningTexts(miss, d) ==
    IF Exists(miss, d) THEN <<>>
    ELSE <<"Data directory missing: " \o d, "Training may fail without proper data setup">>

\* the three loops of lines 50-79 over the paths of order, then lines 87-93:
\* the first missing path is logged as an error and ends the function with
\* False; otherwise every missing image directory is warned about
PrereqResult(miss, order) ==
    LET absent == {i \in DOMAIN order : ~Exists(miss, order[i])}
        first == CHOOSE i \in absent : \A j \in absent : i <= j
    IN  IF absent # {}
          THEN [ok |-> FALSE, errors |-> <<ErrorText(order[first])>>, warnings |-> <<>>]
          ELSE [ok |-> TRUE, errors |-> <<>>,
                warnings |-> WarningTexts(miss, DataDirOrder[1])
                               \o WarningTexts(miss, DataDirOrder[2])]

\* a check that also requires the two image directories
CheckPrerequisitesStrict(miss) == PrereqResult(miss, CheckOrder \o DataDirOrder)

\* lines 44-93: the result, and the error and warning diagnostics logged
CheckPrerequisites(miss) == PrereqResult(miss, CheckOrder)

(***************************************************************************)
(* ModelTrainingOrchestrator.generate_training_report                      *)
(***************************************************************************)
\* len([m for m in self.training_status.values() if m['status'] == s])
CountStatus(st, s) == Cardinality({m \in DOMAIN st : st[m].status = s})

\* (end_time - start_time).total_seconds() and its str(): the times are opaque
Duration == [seconds |-> "end_time - start_time", human |-> "str(duration)"]

\* lines 229-233: a job with a start and an end time gets its duration
WithDurations(st) ==
    [m \in DOMAIN st |->
        IF st[m].start_time # None /\ st[m].end_time # None
          THEN [status |-> st[m].status,
                start_time |-> st[m].start_time,
                end_time |-> st[m].end_time,
                error |-> st[m].error,
                duration_seconds |-> Duration.seconds,
                duration_human |-> Duration.human]
          ELSE st[m]]

\* a summary that takes every job that is not completed for failed
GenerateReportMiscount(st) ==
    [written |-> TRUE,
     models_trained |-> CountStatus(st, "completed"),
     models |-> WithDurations(st),
     summary |-> [total_models |-> Cardinality(DOMAIN st),
                  completed |-> CountStatus(st, "completed"),
                  failed |-> Cardinality(DOMAIN st) - CountStatus(st, "completed"),
                  pending |-> CountStatus(st, "pending")]]

\* lines 213-233: the report; 'models' is the status map itself, durations
\* included
GenerateReport(st) ==
    [written |-> TRUE,
     models_trained |-> CountStatus(st, "completed"),
     models |-> WithDurations(st),
     summary |-> [total_models |-> Cardinality(DOMAIN st),
                  completed |-> CountStatus(st, "completed"),
                  failed |-> CountStatus(st, "failed"),
                  pending |-> CountStatus(st, "pending")]]

\* line 236: training_report_<%Y%m%d_%H%M%S>.json, the clock read to the second
ReportPath(t) == "training_report_" \o ToString(t) \o ".json"

\* open(path, 'w') and json.dump: the file is created or replaced
WriteFile(files, path, content) ==
    [p \in DOMAIN files \cup {path} |-> IF p = path THEN content ELSE files[p]]

\* lines 211-241: generate_training_report
WriteReport ==
    /\ report' = GenerateReport(training_status)
    /\ training_status' = WithDurations(training_status)
    /\ report_files' = WriteFile(report_files, ReportPath(clock),
                                 GenerateReport(training_status))
    /\ report_log' = Append(report_log, ReportPath(clock))
    /\ UNCHANGED clock

\* orchestrator.generate_training_report()
GenerateTrainingReport ==
    /\ pc \in {"idle", "returned"}
    /\ Len(report_log) < MaxReports
    /\ WriteReport
    /\ UNCHANGED <<pc, in_main, missing, models_to_train, idx, model_name, direct,
                   successful_models, failed_models, success, process, orphans,
                   outcomes, used, exit_status>>
    /\ UNCHANGED <<prereq, logVars, dataVars>>

\* a second passes
Tick ==
    /\ clock < MaxClock
    /\ clock' = clock + 1
    /\ UNCHANGED <<orchVars, prereq, report_files, report_log, logVars, dataVars>>

(***************************************************************************)
(* main                                                                    *)
(***************************************************************************)
MainUnchanged ==
    UNCHANGED <<in_main, missing, training_status, models_to_train, idx, model_name,
                direct, successful_models, failed_models, success, process, orphans,
                outcomes, used>>

\* a main that goes on whatever check_prerequisites returned
MainCheckPrerequisitesLenient ==
    /\ pc = "main_prereq"
    /\ prereq' = CheckPrerequisites(missing)
    /\ pc' = "main_install"
    /\ UNCHANGED <<report, exit_status>>
    /\ MainUnchanged
    /\ UNCHANGED <<reportVars, logVars, dataVars>>

\* lines 289-294
MainCheckPrerequisites ==
    /\ pc = "main_prereq"
    /\ prereq' = CheckPrerequisites(missing)
    /\ IF CheckPrerequisites(missing).ok
         THEN pc' = "main_install" /\ UNCHANGED exit_status
         ELSE pc' = "exited" /\ exit_status' = 1
    /\ UNCHANGED report
    /\ MainUnchanged
    /\ UNCHANGED <<reportVars, logVars, dataVars>>

\* lines 296-300 and install_requirements, lines 95-112
MainInstallRequirements ==
    /\ pc = "main_install"
    /\ \E skip_requirements \in BOOLEAN, pip_ok \in BOOLEAN :
          IF skip_requirements \/ (Exists(missing, RequirementsTxt) /\ pip_ok)
            THEN pc' = "main_train" /\ UNCHANGED exit_status
            ELSE pc' = "exited" /\ exit_status' = 1
    /\ UNCHANGED report
    /\ MainUnchanged
    /\ UNCHANGED <<auxVars, dataVars>>

\* lines 302-304: argparse admits only the known names, one or more of them
MainTrain ==
    /\ pc = "main_train"
    /\ \E models \in SeqsOf(Known, 1, MaxArgs) \cup {<<None>>} :
          /\ EnterTrainAll(models)
          /\ used' = Len(IF models = <<None>> THEN DefaultModels ELSE models)
    /\ UNCHANGED <<in_main, missing, training_status, model_name, success, process,
                   orphans, report, exit_status>>
    /\ UNCHANGED <<auxVars, dataVars>>

\* line 310
MainReport ==
    /\ pc = "main_report"
    /\ WriteReport
    /\ pc' = "main_exit"
    /\ UNCHANGED <<in_main, missing, models_to_train, idx, model_name, direct,
                   successful_models, failed_models, success, process, orphans,
                   outcomes, used, exit_status>>
    /\ UNCHANGED <<prereq, logVars, dataVars>>

\* lines 237-238: the report cannot be written; the exception ends main
MainReportRaises ==
    /\ pc = "main_report"
    /\ pc' = "exited"
    /\ exit_status' = 1
    /\ UNCHANGED report
    /\ MainUnchanged
    /\ UNCHANGED <<auxVars, dataVars>>

\* lines 319-323
MainExit ==
    /\ pc = "main_exit"
    /\ exit_status' = (IF failed_models # <<>> THEN 1 ELSE 0)
    /\ pc' = "exited"
    /\ UNCHANGED report
    /\ MainUnchanged
    /\ UNCHANGED <<auxVars, dataVars>>

MainSteps ==
    \/ MainCheckPrerequisites \/ MainInstallRequirements \/ MainTrain
    \/ MainReport \/ MainReportRaises \/ MainExit

TrainModelSteps ==
    \/ TMMkdir \/ TMMkdirRaises
    \/ TMPopen \/ TMPopenRaises
    \/ TMOpenLog \/ TMOpenLogRaises
    \/ TMStreamRaises \/ TMEndOfStream
    \/ TMWait

ProcSteps == ProcClose \/ ProcExit \/ OrphanExit

LoopSteps == LoopUnknown \/ LoopTrain \/ LoopAppend \/ LoopReturn

(***************************************************************************)
(* train_authenticity_verifier.py run as the subprocess of the             *)
(* authenticity_verifier job.                                              *)
(***************************************************************************)
ScriptIdle ==
    /\ script_pc = "none"
    /\ trained = FALSE

\* load_image_pairs, lines 38-58: the *.jpg and *.png files of the category
\* directories of a class, in the order the directory lists them
LoadPool(tree, t) ==
    LET found == {f \in tree : f.type = t /\ f.ext \in {"jpg", "png"}}
    IN  CHOOSE p \in Perms(found) : TRUE

\* what a script step leaves alone
ScriptFrame ==
    /\ ProcUnchanged
    /\ UNCHANGED <<auxVars, sliceVars, splitVars, valVars>>
    /\ UNCHANGED <<pair_pc, pair_i, num_pairs, pairs, labels>>

\* main, lines 256-268: the arguments are parsed and the trainer constructed
VerifierStart ==
    /\ script_pc = "none"
    /\ process.state = "running"
    /\ model_name = "authenticity_verifier"
    /\ script_pc' = "train"
    /\ UNCHANGED <<trained, process, orphans, authentic_images, counterfeit_images>>
    /\ ScriptFrame

\* lines 186-188: train loads the two pools
VerifierLoad ==
    /\ script_pc = "train"
    /\ authentic_images' = LoadPool(images, "authentic")
    /\ counterfeit_images' = LoadPool(images, "counterfeit")
    /\ script_pc' = "loaded"
    /\ UNCHANGED <<trained, process, orphans>>
    /\ ScriptFrame

\* lines 190-192: a pool is empty; an error is logged and train returns
\* (None, None)
VerifierInsufficient ==
    /\ script_pc = "loaded"
    /\ Len(authentic_images) = 0 \/ Len(counterfeit_images) = 0
    /\ script_pc' = "returned"
    /\ UNCHANGED <<trained, process, orphans, authentic_images, counterfeit_images>>
    /\ ScriptFrame

\* lines 194-252: pairs are made, the model is fitted and saved
VerifierFit ==
    /\ script_pc = "loaded"
    /\ Len(authentic_images) > 0 /\ Len(counterfeit_images) > 0
    /\ trained' = TRUE
    /\ script_pc' = "returned"
    /\ UNCHANGED <<process, orphans, authentic_images, counterfeit_images>>
    /\ ScriptFrame

\* lines 194-252: building, fitting or saving the model raises
VerifierFitRaises ==
    /\ script_pc = "loaded"
    /\ Len(authentic_images) > 0 /\ Len(counterfeit_images) > 0
    /\ script_pc' = "raised"
    /\ UNCHANGED <<trained, process, orphans, authentic_images, counterfeit_images>>
    /\ ScriptFrame

\* lines 267-271: main ignores what train returned, so the interpreter exits
\* with code 0 unless an exception went uncaught (code 1); the output closes
\* with the exit
VerifierExit ==
    /\ script_pc \in {"returned", "raised"}
    /\ script_pc' = "exited"
    /\ IF process.state = "running"
         THEN /\ process' = [state |-> "exited",
                             returncode |-> IF script_pc = "returned" THEN 0 ELSE 1]
              /\ UNCHANGED orphans
         ELSE /\ orphans' = orphans - 1
              /\ UNCHANGED process
    /\ UNCHANGED <<trained, authentic_images, counterfeit_images>>
    /\ ScriptFrame

VerifierSteps ==
    \/ VerifierStart \/ VerifierLoad \/ VerifierInsufficient
    \/ VerifierFit \/ VerifierFitRaises \/ VerifierExit

(***************************************************************************)
(* PharmaceuticalDatasetPreparer.validate_dataset_structure                *)
(***************************************************************************)
\* validate_dataset_structure has not been called
NoStats == [called |-> FALSE]

ValIdle ==
    /\ dirs = {}
    /\ validation = NoStats
    /\ validation_report = NoStats
    /\ val_calls = 0

\* the category directories a class directory may hold
ValCategories == {Category, "paracetamol"}

\* the i-th image of category c of class t
CategoryImage(t, c, i) == [Image(t, i) EXCEPT !.category = c]

\* dataset_info.json of a category (lines 78-91), which is not an image
InfoFile(t, c) == [type |-> t, category |-> c, name |-> 0, ext |-> "json"]

\* line 150: fewer images than this in a category is an issue
MinImages == 10

\* lines 142-145: the files of a category with one of the four image extensions
CategoryCount(tree, t, c) ==
    Cardinality({f \in tree : f.type = t /\ f.category = c /\ f.ext \in Range(Exts)})

RECURSIVE SumCounts(_, _)
\* the sum of counts[c] over the categories of S
SumCounts(counts, S) ==
    IF S = {} THEN 0
    ELSE LET c == CHOOSE x \in S : TRUE
         IN  counts[c] + SumCounts(counts, S \ {c})

\* lines 127-147: total and per-category counts of one class
ClassStats(ds, tree, t) ==
    LET cats == IF <<t>> \in ds THEN {c \in ValCategories : <<t, c>> \in ds} ELSE {}
        counts == [c \in cats |-> CategoryCount(tree, t, c)]
    IN  [total |-> SumCounts(counts, cats), categories |-> counts]

\* lines 130-132 and 149-151: the issues of one class
ClassIssues(ds, tree, t) ==
    IF <<t>> \notin ds THEN {"Missing " \o t \o " directory"}
    ELSE {"Low image count for " \o t \o "/" \o c \o ": "
             \o ToString(CategoryCount(tree, t, c)) :
          c \in {x \in ValCategories :
                    <<t, x>> \in ds /\ CategoryCount(tree, t, x) < MinImages}}

\* lines 118-153: the stats of a tree, built from an empty dict
ValidationStats(ds, tree) ==
    [called |-> TRUE,
     authentic |-> ClassStats(ds, tree, "authentic"),
     counterfeit |-> ClassStats(ds, tree, "counterfeit"),
     total_images |-> ClassStats(ds, tree, "authentic").total
                        + ClassStats(ds, tree, "counterfeit").total,
     issues |-> ClassIssues(ds, tree, "authentic") \cup ClassIssues(ds, tree, "counterfeit")]

ValFrame ==
    /\ UNCHANGED <<dirs, images, processed, split_dirs, split_summary, split_files,
                   split_args, split_error>>
    /\ UNCHANGED <<orchVars, auxVars, sliceVars, pairVars, scriptVars>>

\* a validation that adds its total to the total of the call before
ValidateDatasetStructureCarrying ==
    /\ val_calls < MaxValCalls
    /\ validation' =
          [ValidationStats(dirs, images) EXCEPT
              !.total_images = @ + (IF validation.called THEN validation.total_images
                                    ELSE 0)]
    /\ validation_report' = validation'
    /\ val_calls' = val_calls + 1
    /\ UNCHANGED split_calls
    /\ ValFrame

\* lines 114-171: the stats are computed, saved as validation_report.json
\* and returned
ValidateDatasetStructure ==
    /\ val_calls < MaxValCalls
    /\ validation' = ValidationStats(dirs, images)
    /\ validation_report' = ValidationStats(dirs, images)
    /\ val_calls' = val_calls + 1
    /\ UNCHANGED split_calls
    /\ ValFrame

\* the dataset tools at rest
DataIdle == SliceIdle /\ SplitIdle /\ PairIdle /\ ValIdle /\ ScriptIdle

\* a freshly constructed orchestrator in the hands of a caller; under Spec and
\* SpecMain the training scripts print nothing, SpecRunner has them print
OrchIdle ==
    /\ OrchInit
    /\ pc = "idle"
    /\ in_main = FALSE
    /\ missing = {}

Init == OrchIdle /\ DataIdle

Next ==
    \/ CallTrainAll \/ CallTrainModel \/ DirectReturn
    \/ LoopSteps
    \/ TrainModelSteps
    \/ ProcSteps

Spec == Init /\ [][Next]_vars

\* main on a filesystem from which at most MaxMissing paths are missing
MainInit ==
    /\ OrchInit
    /\ pc = "main_prereq"
    /\ in_main = TRUE
    /\ missing \in {S \in SUBSET Paths : Cardinality(S) <= MaxMissing}
    /\ DataIdle

\* argparse rejects every name outside the registry, so the loop of
\* train_all_models never meets an unknown name under main
MainNext ==
    \/ MainSteps
    \/ LoopTrain \/ LoopAppend \/ LoopReturn
    \/ TrainModelSteps
    \/ ProcSteps

SpecMain == MainInit /\ [][MainNext]_vars

(***************************************************************************)
(* One train_model run of the authenticity_verifier job, the subprocess    *)
(* being the script itself, on a tree of at most MaxItems images.          *)
(***************************************************************************)
VerifierInit ==
    /\ \E na, nc \in 0..MaxItems :
          /\ na + nc <= MaxItems
          /\ images = {Image("authentic", i) : i \in 1..na}
                        \cup {Image("counterfeit", i) : i \in 1..nc}
    /\ processed = {}
    /\ split_dirs = {}
    /\ split_summary = NoSummary
    /\ split_files = [t \in Classes |-> NoFiles]
    /\ split_args = Ratios(0, 0, 0)
    /\ split_error = None
    /\ split_calls = 0
    /\ OrchIdle /\ SliceIdle /\ PairIdle /\ ValIdle /\ ScriptIdle

\* orchestrator.train_model('authenticity_verifier', ...), once
VerifierCall ==
    /\ used = 0
    /\ CallTrainModel
    /\ model_name' = "authenticity_verifier"

VerifierNext ==
    \/ VerifierCall \/ DirectReturn
    \/ TrainModelSteps
    \/ VerifierSteps

SpecVerifier == VerifierInit /\ [][VerifierNext]_vars

(***************************************************************************)
(* train_all_models calls whose steps are taken sooner or later.           *)
(***************************************************************************)
LiveNext ==
    \/ CallTrainAll
    \/ LoopSteps
    \/ TrainModelSteps
    \/ ProcSteps

\* the steps the interpreter takes when nothing raises
ProgramSteps ==
    \/ LoopSteps
    \/ TMMkdir \/ TMPopen \/ TMOpenLog \/ TMEndOfStream \/ TMWait

\* the orchestrator keeps executing, and the subprocess it reads from
\* closes its output and exits in the end; nothing is assumed of a
\* subprocess whose Popen object was dropped
SpecLive ==
    /\ Init
    /\ [][LiveNext]_vars
    /\ WF_vars(ProgramSteps)
    /\ WF_vars(ProcClose)
    /\ WF_vars(ProcExit)

(***************************************************************************)
(* validate_dataset_structure called repeatedly on an image tree.          *)
(***************************************************************************)
\* what a class directory holds: each category directory is absent (-1) or
\* holds 0..MaxImages images
ClassShapes == [ValCategories -> (0 - 1)..MaxImages]

NoCategories == [c \in ValCategories |-> 0 - 1]

\* the directories of class t when its directory exists
ShapeDirs(t, exists, shape) ==
    IF ~exists THEN {}
    ELSE {<<t>>} \cup {<<t, c>> : c \in {x \in ValCategories : shape[x] >= 0}}

\* the files of class t: the images of each category, and a
\* dataset_info.json in the first category
ShapeFiles(t, shape) ==
    UNION {{CategoryImage(t, c, i) : i \in 1..shape[c]}
             \cup (IF c = Category /\ shape[c] >= 0 THEN {InfoFile(t, c)} ELSE {}) :
           c \in ValCategories}

ValInit ==
    /\ \E ea, ec \in BOOLEAN, a, c \in ClassShapes :
          /\ ~ea => a = NoCategories
          /\ ~ec => c = NoCategories
          /\ dirs = ShapeDirs("authentic", ea, a) \cup ShapeDirs("counterfeit", ec, c)
          /\ images = ShapeFiles("authentic", a) \cup ShapeFiles("counterfeit", c)
    /\ processed = {}
    /\ split_dirs = {}
    /\ split_summary = NoSummary
    /\ split_files = [t \in Classes |-> NoFiles]
    /\ split_args = Ratios(0, 0, 0)
    /\ split_error = None
    /\ split_calls = 0
    /\ validation = NoStats
    /\ validation_report = NoStats
    /\ val_calls = 0
    /\ OrchIdle /\ SliceIdle /\ PairIdle /\ ScriptIdle

ValNext == ValidateDatasetStructure

SpecValidate == ValInit /\ [][ValNext]_vars

(***************************************************************************)
(* train_model called again and again for jobs whose scripts print lines.  *)
(***************************************************************************)
RunnerNext ==
    \/ CallTrainModel \/ DirectReturn
    \/ TrainModelSteps \/ TMReadLine
    \/ ProcSteps

SpecRunner == Init /\ [][RunnerNext]_vars

(***************************************************************************)
(* generate_training_report called again and again while time passes.      *)
(***************************************************************************)
ReportNext == GenerateTrainingReport \/ Tick

SpecReport == Init /\ [][ReportNext]_vars

(***************************************************************************)
(* The slicing of one category, for every size, shuffle and ratio triple.  *)
(***************************************************************************)
\* ratio triples whose sum is off 1.0 by at most MaxOff / Den
RatioTriples ==
    {Ratios(a, b, Den - a - b + off) :
        a \in (0 - RatioSlack)..(Den + RatioSlack),
        b \in (0 - RatioSlack)..(Den + RatioSlack),
        off \in (0 - MaxOff)..MaxOff}

\* the outcomes of the shuffle that are considered for a category of n files
Shuffles(n) ==
    IF n <= MaxShuffle THEN Perms(1..n)
    ELSE {[i \in 1..n |-> i], [i \in 1..n |-> n + 1 - i]}

SlicesInit ==
    /\ \E n \in 0..MaxN : image_files \in Shuffles(n)
    /\ ratios \in RatioTriples
    /\ slice_pc = "call"
    /\ train_files = <<>>
    /\ val_files = <<>>
    /\ test_files = <<>>
    /\ OrchIdle /\ SplitIdle /\ PairIdle /\ ValIdle /\ ScriptIdle

SlicesNext == SliceCategory \/ SliceRejected

SpecSlices == SlicesInit /\ [][SlicesNext]_vars

(***************************************************************************)
(* split_dataset called repeatedly on a source tree.                       *)
(***************************************************************************)
\* a source tree of at most MaxItems images
SplitInit ==
    /\ \E na, nc \in 0..MaxItems :
          /\ na + nc <= MaxItems
          /\ images = {Image("authentic", i) : i \in 1..na}
                        \cup {Image("counterfeit", i) : i \in 1..nc}
    /\ processed = {}
    /\ split_dirs = {}
    /\ split_summary = NoSummary
    /\ split_files = [t \in Classes |-> NoFiles]
    /\ split_args = Ratios(0, 0, 0)
    /\ split_error = None
    /\ split_calls = 0
    /\ OrchIdle /\ SliceIdle /\ PairIdle /\ ValIdle /\ ScriptIdle

SplitNext == SplitDataset \/ SplitDatasetRaises

SpecSplit == SplitInit /\ [][SplitNext]_vars

(***************************************************************************)
(* create_siamese_pairs on two pools.                                      *)
(***************************************************************************)
PairsInit ==
    /\ \E na, nc \in 0..MaxPool :
          /\ authentic_images = Pool("authentic", na)
          /\ counterfeit_images = Pool("counterfeit", nc)
    /\ num_pairs \in 0..MaxPairs
    /\ pairs = <<>>
    /\ labels = <<>>
    /\ pair_pc = "positive"
    /\ pair_i = 0
    /\ OrchIdle /\ SliceIdle /\ SplitIdle /\ ValIdle /\ ScriptIdle

PairsNext ==
    \/ PositivePair \/ PositiveDone
    \/ CrossPair \/ CrossDone
    \/ NegativePair \/ PairsReturn

SpecPairs == PairsInit /\ [][PairsNext]_vars

(***************************************************************************)
(* Properties of the orchestrator.                                         *)
(***************************************************************************)
Terminal == {"completed", "failed"}

Last(s) == s[Len(s)]

\* the names of the requests of the call whose outcome satisfies P
NamesWhere(P(_)) ==
    LET sel == SelectSeq(outcomes, P) IN [i \in 1..Len(sel) |-> sel[i].name]

ExitedZero(o) == o.how = "exit" /\ o.detail = "0"

NotExitedZero(o) == ~ExitedZero(o)

\* C2: a job's status only ever moves pending -> running -> completed or
\* failed, and a completed or failed job never becomes pending or running
\* again, whatever the sequence of train_all_models / train_model calls.
C2_StatusMonotonic ==
    [][\A m \in Known :
         LET old == training_status[m].status
             new == training_status'[m].status
         IN  \/ new = old
             \/ old = "pending" /\ new = "running"
             \/ old = "running" /\ new \in Terminal]_vars

\* C3: at most one training subprocess is alive at any time, also after an
\* exception has been caught for a job whose subprocess was already spawned.
C3_AtMostOneSubprocess == Alive <= 1

\* C4: a failed job does not abort train_all_models: every request of the
\* list is attempted, in order, and lands in the completed list exactly when
\* its own run exits with code 0, in the failed list otherwise; for three
\* distinct jobs of which only the second exits with code 1, the call
\* returns completed = [job1, job3], failed = [job2], job2 failed with a
\* non-empty error, job1 and job3 completed.
C4_Scenario ==
    /\ pc = "returned"
    /\ Len(models_to_train) = 3
    /\ Cardinality(Range(models_to_train)) = 3
    /\ Range(models_to_train) \subseteq Known
    /\ Len(outcomes) = 3
    /\ ExitedZero(outcomes[1])
    /\ outcomes[2].how = "exit" /\ outcomes[2].detail = "1"
    /\ ExitedZero(outcomes[3])

C4_FailureIsolation ==
    /\ pc = "returned" =>
          /\ Len(outcomes) = Len(models_to_train)
          /\ \A i \in 1..Len(outcomes) : outcomes[i].name = models_to_train[i]
          /\ successful_models = NamesWhere(ExitedZero)
          /\ failed_models = NamesWhere(NotExitedZero)
    /\ C4_Scenario =>
          /\ successful_models = <<models_to_train[1], models_to_train[3]>>
          /\ failed_models = <<models_to_train[2]>>
          /\ training_status[models_to_train[2]].status = "failed"
          /\ training_status[models_to_train[2]].error \notin {None, ""}
          /\ training_status[models_to_train[1]].status = "completed"
          /\ training_status[models_to_train[3]].status = "completed"

C4_Witness ==
    /\ C4_Scenario
    /\ Len(failed_models) = 1
    /\ training_status[failed_models[1]].error = ExitError(1)

\* C5: when main has written the report and exited, the exit status is
\* non-zero iff the failed list is non-empty, and iff some requested job did
\* not end in status 'completed'.
C5_ExitStatus ==
    (pc = "exited" /\ report.written) =>
        /\ (exit_status # 0) <=> (failed_models # <<>>)
        /\ (exit_status # 0) <=>
              (\E m \in Range(models_to_train) : training_status[m].status # "completed")

\* C6: when train_model returns, the job is completed and the result True
\* exactly when the subprocess was spawned, streamed to its end and exited
\* with code 0; any other exit code leaves the job failed with that code in
\* the error detail; an exception leaves it failed with the exception text.
C6_OutcomeClassification ==
    pc = "tm_return" =>
        LET o == Last(outcomes)
            st == training_status[model_name]
        IN  /\ o.name = model_name
            /\ o.how \in {"exit", "raised"}
            /\ st.status \in Terminal
            /\ (st.status = "completed") <=> ExitedZero(o)
            /\ success <=> ExitedZero(o)
            /\ (o.how = "exit" /\ o.detail # "0") =>
                  st.error = "Process exited with code " \o o.detail
            /\ o.how = "raised" => st.error = o.detail

C6_Witness ==
    /\ pc = "tm_return"
    /\ Last(outcomes).how = "exit"
    /\ Last(outcomes).detail = "2"
    /\ training_status[model_name].error = ExitError(2)

\* C7: a requested name outside the registry is appended to the failed list
\* at once, without spawning a subprocess and without touching the status
\* map, and the loop goes on with the next requested name.
AtUnknown ==
    /\ pc = "loop"
    /\ idx <= Len(models_to_train)
    /\ models_to_train[idx] \notin Known

loopVars == <<pc, idx, models_to_train, successful_models, failed_models,
              training_status, process, model_name>>

C7_UnknownJob ==
    [][(AtUnknown /\ loopVars' # loopVars) =>
          /\ failed_models' = Append(failed_models, models_to_train[idx])
          /\ successful_models' = successful_models
          /\ training_status' = training_status
          /\ DOMAIN training_status' = Known
          /\ process' = NoProcess
          /\ Alive' <= Alive
          /\ pc' = "loop"
          /\ idx' = idx + 1
          /\ models_to_train' = models_to_train]_vars

C7_Witness ==
    /\ pc = "tm_mkdir"
    /\ idx > 1
    /\ models_to_train[idx - 1] \notin Known
    /\ Last(failed_models) = models_to_train[idx - 1]

(***************************************************************************)
(* Properties of split_dataset.                                            *)
(***************************************************************************)
Disjoint(s, t) == Range(s) \cap Range(t) = {}

\* C1: for every ratio triple that passes the validation (a ratio may be
\* negative or above 1) and every category, the three slices are pairwise
\* disjoint and their sizes sum to the size of the category: every item is
\* in exactly one split.
C1_Partition ==
    slice_pc = "done" =>
        /\ Disjoint(train_files, val_files)
        /\ Disjoint(train_files, test_files)
        /\ Disjoint(val_files, test_files)
        /\ Len(train_files) + Len(val_files) + Len(test_files) = Len(image_files)
        /\ Range(train_files) \cup Range(val_files) \cup Range(test_files)
             = Range(image_files)

\* C8: a split_dataset call whose ratios do not sum to 1.0 within 1e-6 raises
\* the validation error and leaves the filesystem as it was: no split
\* directory is made, no file copied, no summary written.
C8_InvalidRatiosRejected ==
    [][(split_calls' = split_calls + 1 /\ ~RatiosValid(split_args')) =>
          /\ split_error' = ValueError
          /\ split_dirs' = split_dirs
          /\ processed' = processed
          /\ split_summary' = split_summary
          /\ images' = images]_vars

C8_Witness ==
    /\ split_error = ValueError
    /\ split_args = Ratios(14, 4, 1)
    /\ images # {}
    /\ split_dirs = {}
    /\ processed = {}
    /\ ~split_summary.written

\* each ratio lies in [0, 1]
ProperRatios(r) == r.train \in 0..Den /\ r.val \in 0..Den /\ r.test \in 0..Den

\* floor(n * k / Den)
FloorOf(n, k) == (n * k) \div Den

PathsOf(pool) == {PathStr(pool[i]) : i \in DOMAIN pool}

\* C10: the result is k1 authentic-authentic pairs labeled 1, then k2
\* authentic-counterfeit pairs labeled 0, then k3 counterfeit-counterfeit
\* pairs labeled 0, with k1 = N div 4 if |A| >= 2 else 0, k2 = N div 2 if
\* |A| >= 1 and |C| >= 1 else 0, k3 = N div 4 if |C| >= 2 else 0.
C10_BatchComposition ==
    pair_pc = "done" =>
        LET A == PathsOf(authentic_images)
            C == PathsOf(counterfeit_images)
            k1 == IF Len(authentic_images) >= 2 THEN num_pairs \div 4 ELSE 0
            k2 == IF Len(authentic_images) >= 1 /\ Len(counterfeit_images) >= 1
                    THEN num_pairs \div 2 ELSE 0
            k3 == IF Len(counterfeit_images) >= 2 THEN num_pairs \div 4 ELSE 0
        IN  /\ Len(pairs) = k1 + k2 + k3
            /\ Len(labels) = k1 + k2 + k3
            /\ \A i \in 1..Len(pairs) :
                  IF i <= k1
                    THEN pairs[i][1] \in A /\ pairs[i][2] \in A /\ labels[i] = 1
                  ELSE IF i <= k1 + k2
                    THEN pairs[i][1] \in A /\ pairs[i][2] \in C /\ labels[i] = 0
                  ELSE pairs[i][1] \in C /\ pairs[i][2] \in C /\ labels[i] = 0

C10_Witness ==
    /\ pair_pc = "done"
    /\ Len(authentic_images) = 2
    /\ Len(counterfeit_images) = 2
    /\ num_pairs = 4
    /\ labels = <<1, 0, 0, 0>>

\* C11: pairs and labels have the same length, that length is at most
\* num_pairs, and every label is 0 or 1 (for every num_pairs >= 0 and every
\* two pools), while the function runs and when it returns.
C11_PairsBounded ==
    /\ Len(pairs) = Len(labels)
    /\ Len(pairs) <= num_pairs
    /\ \A i \in 1..Len(labels) : labels[i] \in {0, 1}

C11_Witness ==
    /\ pair_pc = "done"
    /\ num_pairs = 4
    /\ Len(pairs) = 4
    /\ Len(labels) = 4

\* C12: for disjoint pools of distinct items, a pair has label 1 iff both
\* its items are authentic, a pair with label 0 holds at least one
\* counterfeit item, and the two items of a same-pool pair are different.
C12_LabelSemantics ==
    LET A == PathsOf(authentic_images)
        C == PathsOf(counterfeit_images)
    IN  \A i \in 1..Len(pairs) :
           /\ Len(labels) >= i
           /\ (labels[i] = 1) <=> (pairs[i][1] \in A /\ pairs[i][2] \in A)
           /\ (labels[i] = 0) => (pairs[i][1] \in C \/ pairs[i][2] \in C)
           /\ ((pairs[i][1] \in A /\ pairs[i][2] \in A)
                 \/ (pairs[i][1] \in C /\ pairs[i][2] \in C)) =>
                 pairs[i][1] # pairs[i][2]

C12_Witness ==
    /\ pair_pc = "done"
    /\ PathsOf(authentic_images) \cap PathsOf(counterfeit_images) = {}
    /\ Len(pairs) = 4
    /\ labels = <<1, 0, 0, 0>>
    /\ pairs[1][1] # pairs[1][2]
    /\ pairs[4][1] # pairs[4][2]
    /\ pairs[4][1] \in PathsOf(counterfeit_images)

\* the required paths that do not exist
MissingRequired == {p \in RequiredPaths : ~Exists(missing, p)}

AllPending == \A m \in Known : training_status[m] = PendingEntry

\* C13: when a required directory, script or config file is missing,
\* check_prerequisites returns False and main exits with a non-zero status
\* without calling train_all_models: no subprocess is ever spawned and every
\* job stays pending; and the step of check_prerequisites changes neither
\* the status map nor the filesystem.
C13_PrerequisiteGate ==
    /\ [](MissingRequired # {} =>
            /\ pc \in {"main_prereq", "exited"}
            /\ pc = "exited" => (~prereq.ok /\ exit_status # 0 /\ exit_status # NoExit)
            /\ AllPending
            /\ models_to_train = <<>>
            /\ process = NoProcess
            /\ Alive = 0
            /\ outcomes = <<>>)
    /\ [][pc = "main_prereq" =>
            /\ training_status' = training_status
            /\ missing' = missing
            /\ report_files' = report_files
            /\ log_files' = log_files]_vars

C13_Witness ==
    /\ missing = {"authenticity_config.json"}
    /\ pc = "exited"
    /\ exit_status = 1
    /\ ~prereq.ok
    /\ AllPending

\* C14 as claimed: with the scripts and configs directories and every script
\* and config in place, check_prerequisites returns True whichever of the
\* data root and the two image directories are missing.
C14_MissingDataNeverFatal ==
    (pc # "main_prereq" /\ MissingRequired \subseteq {"data_dir"}) =>
        (prereq.ok /\ prereq.errors = <<>>)

\* C14: with the scripts, configs and data directories and every script and
\* config in place, check_prerequisites returns True whichever of the two
\* image directories are missing, logging no error and two warnings for
\* each missing image directory (a missing data root is fatal).
C14_MissingImageDirsNotFatal ==
    (pc # "main_prereq" /\ MissingRequired = {}) =>
        /\ prereq.ok
        /\ prereq.errors = <<>>
        /\ Len(prereq.warnings) = 2 * Cardinality({d \in DataDirs : ~Exists(missing, d)})

C14_Witness ==
    /\ missing = DataDirs
    /\ pc = "main_install"
    /\ prereq.ok
    /\ Len(prereq.warnings) = 4

\* C15: when k >= 1 required items are missing, check_prerequisites returns
\* False and logs k error diagnostics, one for every missing item.
C15_OneErrorPerMissingItem ==
    (pc # "main_prereq" /\ MissingRequired # {}) =>
        /\ ~prereq.ok
        /\ Len(prereq.errors) = Cardinality(MissingRequired)

\* C16: once generate_training_report has run after train_all_models, the
\* report's status map is the orchestrator's status map, its summary counts
\* the jobs in each status, models_trained is the completed count, and
\* completed + failed + pending is the number of jobs.
C16_ReportMatchesStatus ==
    report.written =>
        /\ report.models = training_status
        /\ \A s \in {"completed", "failed", "pending"} :
              report.summary[s] = CountStatus(training_status, s)
        /\ report.models_trained = report.summary.completed
        /\ report.summary.total_models = Cardinality(Known)
        /\ report.summary.completed + report.summary.failed + report.summary.pending
             = report.summary.total_models

C16_Witness ==
    /\ pc = "main_exit"
    /\ report.written
    /\ report.summary.completed = 1
    /\ report.summary.failed = 1
    /\ report.summary.pending = 1

\* C17: every generate_training_report call writes to a path that no earlier
\* call wrote to, whether or not a second passes between two calls.
C17_NeverOverwrites ==
    \A i, j \in DOMAIN report_log : i < j => report_log[i] # report_log[j]

\* s is an initial segment of t
IsPrefix(s, t) == Len(s) <= Len(t) /\ \A i \in 1..Len(s) : s[i] = t[i]

\* C18: the log file of a job is append-only over any sequence of
\* train_model runs: no step removes it or any of its entries, and each line
\* read from the subprocess adds exactly one entry '<timestamp> - <line>'
\* behind the entries already there.
C18_LogAppendOnly ==
    [][/\ \A m \in Known :
              log_files[m].exists =>
                  /\ log_files'[m].exists
                  /\ IsPrefix(log_files[m].entries, log_files'[m].entries)
       /\ (received' # received /\ received' # <<>>) =>
              log_files'[model_name].entries =
                  Append(log_files[model_name].entries, LogEntry(Last(received')))
      ]_vars

\* C19: whenever train_model has brought a job to a terminal status
\* (completed, failed by exit code, failed by an exception), the log file of
\* the job exists and ends with an entry for every line received in that
\* run, in order.
C19_LogPreserved ==
    pc = "tm_return" =>
        LET log == log_files[model_name]
            k == Len(log.entries) - Len(received)
        IN  /\ training_status[model_name].status \in Terminal
            /\ log.exists
            /\ k >= 0
            /\ \A i \in 1..Len(received) : log.entries[k + i] = LogEntry(received[i])

SplitReturned == split_calls >= 1 /\ split_error = None /\ split_summary.written

\* C21: split_dataset copies and never moves: the call leaves the files
\* under pharmaceutical_images exactly as they were, and every item it
\* assigned to a split has a copy under processed/<split>/<class>/<category>.
C21_CopiesNeverMoves ==
    [][(split_calls' = split_calls + 1 /\ split_error' = None) =>
          /\ images' = images
          /\ \A t \in Classes : \A sp \in Splits :
                /\ Range(split_files'[t][sp]) \subseteq ImageFiles(images, t)
                /\ \A f \in Range(split_files'[t][sp]) : Copy(sp, f) \in processed'
          /\ processed \subseteq processed']_vars

C21_Witness ==
    /\ split_calls = 1
    /\ split_error = None
    /\ Cardinality(images) = 3
    /\ Cardinality(processed) = 3
    /\ \E f \in images : Copy("train", f) \in processed
    /\ \E f \in images : Copy("test", f) \in processed

\* C22: the summary a split_dataset call returns gives, for every split and
\* class, the number of items of the class that the call assigned to the
\* split, whatever accepted extension the items have; the six counts sum to
\* the number of items split.
C22_SummaryCounts ==
    SplitReturned =>
        \A sp \in Splits : \A t \in Classes :
            split_summary.splits[sp][t] = Len(split_files[t][sp])

RECURSIVE SumOf(_, _)
\* the sum of f[x] over the x of S
SumOf(f, S) ==
    IF S = {} THEN 0
    ELSE LET x == CHOOSE y \in S : TRUE IN f[x] + SumOf(f, S \ {x})

\* the sum of the six counts of a summary
SummaryTotal(summary) ==
    SumOf([p \in Splits \X Classes |-> summary.splits[p[1]][p[2]]], Splits \X Classes)

\* C29: after any sequence of split_dataset calls with ratios that pass the
\* validation, on an unchanged source tree, every source item has a copy in
\* exactly one of processed/train, processed/val and processed/test, and
\* the counts of the last summary sum to the number of source items.
C29_DiskPartition ==
    SplitReturned =>
        /\ \A f \in images :
              Cardinality({sp \in Splits : Copy(sp, f) \in processed}) = 1
        /\ SummaryTotal(split_summary) = Cardinality(images)

\* train_model is at work on a job
RunPcs == {"tm_mkdir", "tm_popen", "tm_open", "tm_stream", "tm_wait"}

\* train_all_models is at work
InTrainAll == ~direct /\ pc \in RunPcs \cup {"loop", "tm_return"}

\* C23: train_all_models runs the requests in the order of the list (the
\* default list being drug_classifier, authenticity_verifier,
\* pill_detector); the only running job is the one at the current position,
\* and it is running only once every job at an earlier position is terminal
\* with its end time recorded; both result lists keep the request order.
C23_JobOrdering ==
    /\ InTrainAll =>
          /\ idx >= 1
          /\ Len(outcomes) = (IF pc = "tm_return" THEN idx ELSE idx - 1)
          /\ Len(outcomes) <= Len(models_to_train)
          /\ \A i \in 1..Len(outcomes) : outcomes[i].name = models_to_train[i]
          /\ \A m \in Known :
                training_status[m].status = "running" =>
                    pc \in RunPcs /\ m = model_name /\ m = models_to_train[idx]
          /\ \A j \in 1..Len(outcomes) :
                LET st == training_status[models_to_train[j]]
                IN  (models_to_train[j] \in Known /\ st.status # "running") =>
                        (st.status \in Terminal /\ st.end_time # None)
    /\ (pc = "returned" \/ (pc = "loop" /\ ~direct)) =>
          /\ successful_models = NamesWhere(ExitedZero)
          /\ failed_models = NamesWhere(NotExitedZero)

C23_Witness ==
    /\ models_to_train = DefaultModels
    /\ DefaultModels = <<"drug_classifier", "authenticity_verifier", "pill_detector">>
    /\ pc = "tm_stream"
    /\ idx = 2
    /\ training_status["drug_classifier"].status = "failed"
    /\ training_status["drug_classifier"].end_time # None
    /\ training_status["authenticity_verifier"].status = "running"
    /\ training_status["pill_detector"] = PendingEntry

\* C24: train_model blocks until the subprocess it spawned has exited, on
\* every path: once no job is running (the job is completed or failed and
\* train_model is returning), no training subprocess is alive.
C24_RunnerBlocks ==
    (\A m \in Known : training_status[m].status # "running") => Alive = 0

\* C26: when train_all_models returns on a fresh orchestrator, every request
\* is in exactly one of the two lists, and a known job is in the completed
\* list iff its status is 'completed' and in the failed list iff its status
\* is 'failed', so that no name is in both lists.
C26_ListsAgreeWithStatus ==
    (pc = "returned" /\ used = Len(models_to_train)) =>
        /\ Len(successful_models) + Len(failed_models) = Len(models_to_train)
        /\ \A m \in Known :
              /\ (m \in Range(successful_models)) <=>
                    (training_status[m].status = "completed")
              /\ (m \in Range(failed_models)) <=> (training_status[m].status = "failed")
        /\ Range(successful_models) \cap Range(failed_models) = {}

\* C27: in every state a job's error is set iff its status is 'failed',
\* also when a job that failed earlier is run again; a completed job has no
\* error.
C27_ErrorIffFailed ==
    \A m \in Known :
        (training_status[m].error # None) <=> (training_status[m].status = "failed")

\* the known jobs main did not request
NeverRequested == Known \ Range(models_to_train)

\* C28: a train_model run changes the status-map entry of its own job only;
\* a known job that is never requested stays pending with no start time,
\* end time or error, no subprocess or log is made for it, and the report
\* counts it as pending.
C28_JobRunFrame ==
    /\ [][pc # "main_report" =>
            \A m \in Known :
                training_status'[m] # training_status[m] => m = model_name']_vars
    /\ [](\A m \in NeverRequested :
            /\ training_status[m] = PendingEntry
            /\ model_name # m
            /\ ~log_files[m].exists
            /\ report.written =>
                  /\ report.models[m] = PendingEntry
                  /\ report.summary.pending = Cardinality(NeverRequested))

C28_Witness ==
    /\ pc = "main_exit"
    /\ report.written
    /\ models_to_train = <<"drug_classifier">>
    /\ training_status["drug_classifier"].status = "completed"
    /\ training_status["pill_detector"] = PendingEntry
    /\ report.summary.pending = 2

\* train_all_models returns in the end
C25_Returns == [](InTrainAll => <>(pc = "returned"))

\* every requested known job is terminal when train_all_models has returned
C25_Finalized ==
    pc = "returned" =>
        \A m \in Range(models_to_train) \cap Known :
            training_status[m].status \in Terminal

\* C25: if the subprocesses close their output and exit, train_all_models
\* returns in the end, with every requested known job completed or failed;
\* and a job is started only when the subprocess of every earlier job has
\* exited, so that a subprocess that never ends keeps every later job from
\* starting.
C25_TerminatesAndBlocks ==
    /\ C25_Returns
    /\ []C25_Finalized
    /\ [][(\E m \in Known : /\ training_status'[m].status = "running"
                            /\ training_status[m].status # "running") =>
              Alive = 0]_vars

\* C30: the authenticity_verifier job is recorded as completed only if its
\* training ran: with an empty authentic or counterfeit pool the script
\* trains nothing and does not exit with code 0, so the job is not
\* completed.
C30_CompletedOnlyIfTrained ==
    training_status["authenticity_verifier"].status = "completed" => trained

====
